---- MODULE Spec2Model ----
(***************************************************************************)
(* FractalOpenList (src/search/open_lists/fractal_open_list.cc) on top of  *)
(* the OpenList contract and pop_bucket (src/search/open_lists/open_list.h)*)
(* as a state machine: one action per public operation, insert and         *)
(* remove_min.                                                             *)
(***************************************************************************)
EXTENDS Integers, Sequences, FiniteSets, Bags, TLC

\* ------------------------------------------------------------------ bounds
MaxOps == 4
MaxRand == 2

\* ------------------------------------------------------- program constants
InitialRecords == 32

\* --------------------------------------------------------------- universes
Keys == {<<0, 1>>, <<1, 0>>}
Labels == {0, 1}
Entries == {"A", "B"}
\* An indeterminate Entry: what a read through a dangling reference or past
\* the end of the type-bucket array may yield.
Garbage == "garbage"
NoEntry == "none"
NoKey == <<>>
\* The caller's output key slot: no slot (null pointer), an empty vector, or
\* a vector that already holds something.
\* (given: its contents at the call, value: its contents after the call)
NullSlot == [present |-> FALSE, given |-> <<>>, value |-> <<>>]
EmptySlot == [present |-> TRUE, given |-> <<>>, value |-> <<>>]
FullSlot == [present |-> TRUE, given |-> <<9>>, value |-> <<9>>]
KeySlots == {NullSlot, EmptySlot, FullSlot}
QueueType == {"FIFO", "LIFO", "RANDOM"}

VARIABLES
    only_preferred,        \* OpenList::only_preferred
    queue_type,            \* OpenList::queue_type
    stochastic,            \* option "stochastic"
    buckets,               \* Key -> sequence of [label, queue] (<<>> for a Key not in the map)
    bucket_keys,           \* the Keys that have an element in the std::map this->buckets
    size,                  \* stored entry counter
    expansion_records,     \* Key -> usage counts; <<>> = not yet created
    current_dimension,     \* Key -> dimension; 0 = not yet created
    pc,                    \* "ok" while the process runs, "fatal" once it aborted
    lastOp,                \* what the last call did
    ops                    \* number of calls so far

vars == <<only_preferred, queue_type, stochastic, buckets, bucket_keys, size,
          expansion_records, current_dimension, pc, lastOp, ops>>

config == <<only_preferred, queue_type, stochastic>>

\* ----------------------------------------------------------------- helpers
Min2(a, b) == IF a < b THEN a ELSE b

SetMin(S) == CHOOSE x \in S : \A y \in S : x <= y

RECURSIVE SumSeq(_)
SumSeq(s) == IF s = <<>> THEN 0 ELSE Head(s) + SumSeq(Tail(s))

RemoveAt(s, i) == SubSeq(s, 1, i - 1) \o SubSeq(s, i + 1, Len(s))

Zeros(n) == [i \in 1..n |-> 0]

\* Values g_rng(n) may return, n > 0: 0 .. n-1, cut at MaxRand.
g_rng(n) == 0..Min2(n - 1, MaxRand)

\* std::vector<int> operator<, the order of the std::map of primary buckets.
KeyLess(a, b) ==
    \/ \E i \in 1..Min2(Len(a), Len(b)) :
          /\ \A j \in 1..(i - 1) : a[j] = b[j]
          /\ a[i] < b[i]
    \/ /\ Len(a) < Len(b)
       /\ \A j \in 1..Len(a) : a[j] = b[j]

\* The Keys under which b holds type buckets.
LiveKeys(b) == {k \in Keys : b[k] # <<>>}

\* Mutant of MinKey: the iteration starts from the greatest Key.
MinKey_Last(K) == CHOOSE k \in K : \A j \in K : ~KeyLess(k, j)

\* this->buckets.begin(): the least of the Keys K in the map.
MinKey(K) == CHOOSE k \in K : \A j \in K : ~KeyLess(j, k)

QueueLen(tb) == Len(tb.queue)

RECURSIVE EntriesIn(_, _)
EntriesIn(b, K) ==
    IF K = {} THEN 0
    ELSE LET k == CHOOSE x \in K : TRUE
         IN SumSeq([j \in 1..Len(b[k]) |-> QueueLen(b[k][j])]) + EntriesIn(b, K \ {k})

\* The number of entries stored across all type buckets of all primary buckets.
TotalEntries(b) == EntriesIn(b, Keys)

NoOp == [op |-> "none", key |-> NoKey, done |-> FALSE, bucket_i |-> -1, n |-> 0,
         result |-> NoEntry, rng |-> FALSE, key_slot |-> NullSlot,
         preferred |-> FALSE, dead_end |-> FALSE]

\* -------------------------------------------------------------------- Init
Init ==
    /\ only_preferred \in BOOLEAN
    /\ queue_type \in QueueType
    /\ stochastic \in BOOLEAN
    /\ buckets = [k \in Keys |-> <<>>]
    /\ bucket_keys = {}
    /\ size = 0
    /\ expansion_records = [k \in Keys |-> <<>>]
    /\ current_dimension = [k \in Keys |-> 0]
    /\ pc = "ok"
    /\ lastOp = NoOp
    /\ ops = 0

\* ------------------------------------------------------------------ insert
\* Mutant of InsertAccepted: the dead-end test is left out.
InsertAccepted_NoDeadEndTest(preferred, dead_end) == ~(only_preferred /\ ~preferred)

\* OpenList::insert's filter: do_insertion is reached iff this holds.
InsertAccepted(preferred, dead_end) ==
    IF only_preferred /\ ~preferred THEN FALSE
    ELSE ~dead_end

\* TypedTiebreakingOpenList::do_insertion: locate or create the primary bucket
\* of the Key, locate or create (appended at the end) the type bucket of the
\* label, push the entry at the back of its queue.
do_insertion(b, key, label, entry) ==
    LET tbuckets == b[key]
        at == {i \in 1..Len(tbuckets) : tbuckets[i].label = label}
    IN IF at = {}
       THEN [b EXCEPT ![key] = Append(tbuckets, [label |-> label, queue |-> <<entry>>])]
       ELSE LET i == CHOOSE x \in at : TRUE
            IN [b EXCEPT ![key][i].queue = Append(@, entry)]

insert(key, label, entry, preferred, dead_end) ==
    /\ pc = "ok"
    /\ ops < MaxOps
    /\ ops' = ops + 1
    /\ IF InsertAccepted(preferred, dead_end)
       THEN /\ buckets' = do_insertion(buckets, key, label, entry)
            /\ bucket_keys' = bucket_keys \cup {key}
            /\ size' = size + 1
            /\ lastOp' = [NoOp EXCEPT !.op = "insert", !.key = key, !.done = TRUE,
                                       !.preferred = preferred, !.dead_end = dead_end]
       ELSE /\ lastOp' = [NoOp EXCEPT !.op = "insert",
                                       !.preferred = preferred, !.dead_end = dead_end]
            /\ UNCHANGED <<buckets, bucket_keys, size>>
    /\ UNCHANGED <<config, expansion_records, current_dimension, pc>>

\* -------------------------------------------------------------- pop_bucket
\* The value read through a reference to an element that pop_front/pop_back
\* has already destroyed: the old value, or anything else.
Dangling(v) == {v, Garbage}

\* pop_bucket(bucket, queue_type) on a non-empty queue: the possible
\* (returned entry, queue afterwards, random source consulted) outcomes.
pop_bucket(bucket, qt) ==
    LET last == Len(bucket)
    IN CASE qt = "LIFO" ->
              {[result |-> r, bucket |-> SubSeq(bucket, 1, last - 1), rng |-> FALSE] :
                  r \in Dangling(bucket[last])}
         [] qt = "RANDOM" ->
              UNION {
                  \* result aliases slot i, which is overwritten with back()
                  \* before pop_back(): it dangles only when i is the last slot.
                  {[result |-> r,
                    bucket |-> SubSeq([bucket EXCEPT ![i + 1] = bucket[last]], 1, last - 1),
                    rng |-> TRUE] :
                      r \in IF i + 1 = last THEN Dangling(bucket[last]) ELSE {bucket[last]}}
                  : i \in g_rng(last)}
         [] OTHER ->
              {[result |-> r, bucket |-> Tail(bucket), rng |-> FALSE] :
                  r \in Dangling(Head(bucket))}

\* -------------------------------------------------------------- remove_min
\* Mutant of Candidates: the comparison is >= instead of >.
Candidates_Geq(records, dim) ==
    {depth \in 1..Len(records) : depth * dim >= records[depth]}

\* The 1-based depths d with d*dim > records[d-1].
Candidates(records, dim) ==
    {depth \in 1..Len(records) : depth * dim > records[depth]}

\* The possible return values of random_index_with_size_diff.
\* each with whether g_rng was called.
random_index_with_size_diff(records, dim) ==
    IF records = <<>> THEN {[index |-> 0, rng |-> FALSE]}
    ELSE IF Candidates(records, dim) = {} THEN {[index |-> -1, rng |-> FALSE]}
    ELSE {[index |-> i, rng |-> TRUE] : i \in g_rng(Cardinality(Candidates(records, dim)))}

\* Mutant of first_index_with_size_diff: the 0-based position is returned.
first_index_with_size_diff_ZeroBased(records, dim) ==
    IF Candidates(records, dim) # {} THEN SetMin(Candidates(records, dim)) - 1
    ELSE IF records = <<>> THEN 0 ELSE -1

\* Mutant of first_index_with_size_diff: the scan keeps the last candidate.
first_index_with_size_diff_Last(records, dim) ==
    IF Candidates(records, dim) # {}
    THEN CHOOSE d \in Candidates(records, dim) : \A e \in Candidates(records, dim) : e <= d
    ELSE IF records = <<>> THEN 0 ELSE -1

first_index_with_size_diff(records, dim) ==
    IF Candidates(records, dim) # {} THEN SetMin(Candidates(records, dim))
    ELSE IF records = <<>> THEN 0 ELSE -1

\* Mutant of SelectIndex: the random selection is used in both modes.
SelectIndex_AlwaysRandom(records, dim) == random_index_with_size_diff(records, dim)

\* Line 87-90: the values bucket_i may take in one pass of the retry loop.
SelectIndex(records, dim) ==
    IF stochastic THEN random_index_with_size_diff(records, dim)
    ELSE {[index |-> first_index_with_size_diff(records, dim), rng |-> FALSE]}

\* Mutant of RetryDimension: the dimension is raised by two per retry.
RECURSIVE RetryDimension_ByTwo(_, _)
RetryDimension_ByTwo(records, dim) ==
    IF \E s \in SelectIndex(records, dim) : s.index < 0
    THEN RetryDimension_ByTwo(records, dim + 2)
    ELSE dim

\* Lines 86-95: dim++ while the selection returns a negative index.
RECURSIVE RetryDimension(_, _)
RetryDimension(records, dim) ==
    IF \E s \in SelectIndex(records, dim) : s.index < 0
    THEN RetryDimension(records, dim + 1)
    ELSE dim

\* Mutant of InitRecords: every call starts from fresh zero counts.
InitRecords_Fresh(records) == Zeros(InitialRecords)

\* Lines 83-85: records.resize(32) when empty.
InitRecords(records) ==
    IF records = <<>> THEN Zeros(InitialRecords) ELSE records

\* Lines 96-98: double the array when bucket_i is at or beyond its size.
GrowRecords(records, bucket_i) ==
    IF bucket_i >= Len(records) THEN records \o Zeros(Len(records)) ELSE records

\* Mutant of CountUse: the slot after bucket_i is incremented.
CountUse_Next(records, bucket_i) ==
    [records EXCEPT ![bucket_i + 2] = @ + 1]

\* Mutant of CountUse: the slot is raised by two.
CountUse_Twice(records, bucket_i) ==
    [records EXCEPT ![bucket_i + 1] = @ + 2]

\* Line 99: records[bucket_i]++.
CountUse(records, bucket_i) ==
    [records EXCEPT ![bucket_i + 1] = @ + 1]

\* Mutant of EraseIfEmpty: an emptied type bucket is kept.
EraseIfEmpty_Keep(tbuckets, i, q) == [tbuckets EXCEPT ![i + 1].queue = q]

\* Lines 105-106: the type bucket at position i (0-based) after the pop left
\* it with queue q: erased when empty.
EraseIfEmpty(tbuckets, i, q) ==
    IF q = <<>> THEN RemoveAt(tbuckets, i + 1)
    ELSE [tbuckets EXCEPT ![i + 1].queue = q]

\* Lines 107-109: the map's Keys after the pop left primary bucket it with
\* the type buckets tbuckets; a type bucket must have been erased (line 105)
\* for the primary bucket to be looked at.
ErasePrimaryIfEmpty(K, it, tbuckets, erased) ==
    IF erased /\ tbuckets = <<>> THEN K \ {it} ELSE K

\* Lines 100-111 with bucket_i inside the type-bucket sequence.
PopInRange(it, bucket_i, op) ==
    LET tbuckets == buckets[it]
        tbucket == tbuckets[bucket_i + 1].queue
    IN IF tbucket = <<>>                       \* assert(!tbucket.empty())
       THEN /\ pc' = "fatal"
            /\ lastOp' = op
            /\ UNCHANGED <<buckets, bucket_keys>>
       ELSE \E o \in pop_bucket(tbucket, queue_type) :
              /\ buckets' = [buckets EXCEPT ![it] = EraseIfEmpty(tbuckets, bucket_i, o.bucket)]
              /\ bucket_keys' = ErasePrimaryIfEmpty(bucket_keys, it, buckets'[it],
                                                     Len(buckets'[it]) < Len(tbuckets))
              /\ lastOp' = [op EXCEPT !.result = o.result, !.rng = @ \/ o.rng]
              /\ pc' = "ok"

\* Lines 100-111 with tbuckets.begin() + bucket_i at or past end(): the read
\* of it2->second is undefined. Either the process stops (the assertion on
\* the indeterminate bucket fails, or the access faults), or pop_bucket runs
\* on memory that is no type bucket and an indeterminate Entry is returned.
PopOutOfRange(op) ==
    /\ UNCHANGED <<buckets, bucket_keys>>
    /\ \/ /\ pc' = "fatal"
          /\ lastOp' = op
       \/ /\ pc' = "ok"
          /\ lastOp' = [op EXCEPT !.result = Garbage,
                                  !.rng = @ \/ queue_type = "RANDOM"]

\* Mutant of KeySlotOK: the key slot is not checked.
KeySlotOK_Unchecked(key) == TRUE

\* Lines 75-76: a supplied key slot must be empty.
KeySlotOK(key) == ~key.present \/ key.given = <<>>

remove_min(key) ==
    /\ pc = "ok"
    /\ ops < MaxOps
    /\ ops' = ops + 1
    /\ UNCHANGED config
    /\ IF size <= 0                                        \* line 69
       THEN /\ pc' = "fatal"
            /\ lastOp' = [NoOp EXCEPT !.op = "remove_min", !.key_slot = key]
            /\ UNCHANGED <<buckets, bucket_keys, size, expansion_records, current_dimension>>
       ELSE IF \/ bucket_keys = {}                         \* lines 70-73
               \/ buckets[MinKey(bucket_keys)] = <<>>      \* line 74
               \/ ~KeySlotOK(key)                          \* lines 75-76
       THEN /\ size' = size - 1
            /\ pc' = "fatal"
            /\ lastOp' = [NoOp EXCEPT !.op = "remove_min", !.key_slot = key]
            /\ UNCHANGED <<buckets, bucket_keys, expansion_records, current_dimension>>
       ELSE LET it == MinKey(bucket_keys)
                records == InitRecords(expansion_records[it])
                dim == RetryDimension(records, current_dimension[it])
            IN \E sel \in SelectIndex(records, dim) :
                 LET bucket_i == sel.index
                     op == [NoOp EXCEPT !.op = "remove_min", !.key = it, !.done = TRUE,
                                        !.bucket_i = bucket_i, !.n = Len(buckets[it]),
                                        !.rng = sel.rng,
                                        !.key_slot = IF key.present
                                                      THEN [key EXCEPT !.value = it]
                                                      ELSE key]
                 IN /\ size' = size - 1
                    /\ expansion_records' =
                          [expansion_records EXCEPT
                              ![it] = CountUse(GrowRecords(records, bucket_i), bucket_i)]
                    /\ current_dimension' = [current_dimension EXCEPT ![it] = dim]
                    /\ IF bucket_i < Len(buckets[it])
                       THEN PopInRange(it, bucket_i, op)
                       ELSE PopOutOfRange(op)

\* -------------------------------------------------------------------- Next
Next ==
    \/ \E key \in Keys, label \in Labels, entry \in Entries,
          preferred \in BOOLEAN, dead_end \in BOOLEAN :
            insert(key, label, entry, preferred, dead_end)
    \/ \E key \in KeySlots : remove_min(key)

Spec == Init /\ [][Next]_vars

\* ------------------------------------------------------------ type sanity
TypeOK ==
    /\ size \in Int
    /\ pc \in {"ok", "fatal"}
    /\ \A k \in Keys : \A i \in 1..Len(buckets[k]) : buckets[k][i].label \in Labels

\* ------------------------------------------------------ claim vocabulary
\* The last call was a remove_min that got as far as choosing bucket_i.
Selected == lastOp.op = "remove_min" /\ lastOp.done

\* Lexicographic order on Keys, written out for the two-evaluator Keys.
LexLeq(a, b) == a[1] < b[1] \/ (a[1] = b[1] /\ a[2] <= b[2])

EntriesOf(tbuckets) == SumSeq([j \in 1..Len(tbuckets) |-> QueueLen(tbuckets[j])])

\* C1: whenever remove_min has computed bucket_i for the minimum-key primary
\* bucket, 0 <= bucket_i < n, n the number of type buckets of that bucket at
\* the moment of the pop.
C1_SelectionSafety ==
    Selected => (0 <= lastOp.bucket_i /\ lastOp.bucket_i < lastOp.n)

\* C2: while the list is in use, the stored counter size equals the number
\* of entries held in all type buckets of all primary buckets.
C2_SizeInvariant ==
    pc = "ok" => size = TotalEntries(buckets)

\* C3: a remove_min targets the primary bucket with the lexicographically
\* least Key among those holding entries; a supplied key slot receives that
\* Key; an entry leaves no other primary bucket; and of two consecutive
\* remove_min calls the second one's Key is not smaller than the first's.
C3_PrimaryOrdering ==
    [][(lastOp'.op = "remove_min" /\ lastOp'.done) =>
          /\ buckets[lastOp'.key] # <<>>
          /\ \A k \in Keys : buckets[k] # <<>> => LexLeq(lastOp'.key, k)
          /\ lastOp'.key_slot.present => lastOp'.key_slot.value = lastOp'.key
          /\ \A k \in Keys \ {lastOp'.key} : buckets'[k] = buckets[k]
          /\ buckets' # buckets =>
                EntriesOf(buckets'[lastOp'.key]) = EntriesOf(buckets[lastOp'.key]) - 1
          /\ Selected => LexLeq(lastOp.key, lastOp'.key)]_vars

\* C3 witness: an entry was popped from the larger Key, into a supplied key
\* slot, after earlier removals had drained the smaller Key.
C3_Witness ==
    /\ Selected
    /\ lastOp.key = <<1, 0>>
    /\ lastOp.key_slot.present
    /\ lastOp.key_slot.value = <<1, 0>>
    /\ lastOp.bucket_i < lastOp.n
    /\ expansion_records[<<0, 1>>] # <<>>

\* The list holds exactly one type bucket.
LoneBucket(b) ==
    /\ Cardinality(LiveKeys(b)) = 1
    /\ Len(b[MinKey(LiveKeys(b))]) = 1

\* C4: with queue_type = FIFO, a remove_min (called within its contract) on
\* a list whose only bucket holds entries in insertion order returns the
\* earliest-inserted one.
C4_FifoEndToEnd ==
    [][(/\ queue_type = "FIFO"
        /\ LoneBucket(buckets)
        /\ size > 0
        /\ lastOp'.op = "remove_min"
        /\ lastOp'.key_slot # FullSlot) =>
          /\ pc' = "ok"
          /\ lastOp'.result = Head(buckets[MinKey(LiveKeys(buckets))][1].queue)]_vars

\* The queue of the type bucket at 0-based position i of primary bucket k,
\* <<>> when there is no such type bucket.
QueueAt(b, k, i) == IF i < Len(b[k]) THEN b[k][i + 1].queue ELSE <<>>

\* The queue remove_min popped from, as it is after the step: <<>> when the
\* type bucket was erased.
QueueAfter(b, bAfter, k, i) ==
    IF Len(bAfter[k]) < Len(b[k]) THEN <<>> ELSE QueueAt(bAfter, k, i)

SeqToBag(q) == [e \in {q[j] : j \in 1..Len(q)} |-> Cardinality({j \in 1..Len(q) : q[j] = e})]

\* C5: with queue_type = RANDOM, a pop from a type bucket returns an entry e
\* and leaves the bucket equal to its previous contents minus one occurrence
\* of e. (Stated here only for pops whose returned value is determinate.)
C5_RandomMultiset ==
    [][(/\ queue_type = "RANDOM"
        /\ lastOp'.op = "remove_min" /\ lastOp'.done
        /\ lastOp'.bucket_i < lastOp'.n
        /\ lastOp'.result # Garbage) =>
          SeqToBag(QueueAt(buckets, lastOp'.key, lastOp'.bucket_i)) =
             SeqToBag(QueueAfter(buckets, buckets', lastOp'.key, lastOp'.bucket_i))
                (+) SetToBag({lastOp'.result})]_vars

\* C6: a Key's dimension is 0 until its usage counts exist, never decreases,
\* and changes only in a remove_min on that Key, by exactly one.
C6_DimensionMonotone ==
    [][\A k \in Keys :
          /\ expansion_records[k] = <<>> => current_dimension[k] = 0
          /\ current_dimension'[k] >= current_dimension[k]
          /\ current_dimension'[k] # current_dimension[k] =>
                /\ lastOp'.op = "remove_min" /\ lastOp'.done /\ lastOp'.key = k
                /\ current_dimension'[k] = current_dimension[k] + 1]_vars

\* C6 witness: a second removal on a Key found its dimension already raised
\* and left it as it was.
C6_Witness ==
    /\ Selected
    /\ current_dimension[lastOp.key] = 1
    /\ SumSeq(expansion_records[lastOp.key]) >= 2

\* C7: no step resets a Key's usage counts or dimension: while the Key has no
\* primary bucket (erased, and also while entries with that Key are inserted
\* again) both stay as they are, and every remove_min on the Key, the one
\* that erases its primary bucket included, continues from the stored counts
\* (one slot one higher, none lower) and from the stored dimension.
C7_Persistence ==
    [][\A k \in Keys :
          /\ buckets[k] = <<>> =>
                /\ expansion_records'[k] = expansion_records[k]
                /\ current_dimension'[k] = current_dimension[k]
          /\ (lastOp'.op = "remove_min" /\ lastOp'.done /\ lastOp'.key = k) =>
                /\ Len(expansion_records'[k]) >= InitialRecords
                /\ \A p \in 1..Len(expansion_records[k]) :
                      expansion_records'[k][p] >= expansion_records[k][p]
                /\ SumSeq(expansion_records'[k]) = SumSeq(expansion_records[k]) + 1
                /\ current_dimension'[k] >= current_dimension[k]]_vars

\* C7 witness: a Key that was popped from until its primary bucket was erased
\* has just received an entry again, and its counts and dimension are still
\* the ones the removals left.
C7_Witness ==
    /\ lastOp.op = "insert" /\ lastOp.done
    /\ EntriesOf(buckets[lastOp.key]) = 1
    /\ SumSeq(expansion_records[lastOp.key]) >= 1
    /\ current_dimension[lastOp.key] = 1

\* C8 as stated: with stochastic = false no removal consults the random
\* source, whatever the queue discipline. (Held to in-range pops only.)
C8_NoRandomness ==
    (~stochastic /\ Selected /\ lastOp.bucket_i < lastOp.n) => ~lastOp.rng

\* C8 amended: with stochastic = false and queue_type FIFO or LIFO no
\* removal consults the random source.
C8_NoRandomnessFifoLifo ==
    (~stochastic /\ queue_type # "RANDOM" /\ Selected) => ~lastOp.rng

\* C8 witness: a deterministic-mode FIFO/LIFO removal popped an entry from a
\* type bucket without a random draw.
C8_Witness ==
    /\ ~stochastic /\ queue_type # "RANDOM"
    /\ Selected /\ lastOp.bucket_i < lastOp.n
    /\ lastOp.result \in Entries
    /\ ~lastOp.rng

\* The call OpenList::insert filters out: preferred-only list and a context
\* that is not preferred, or a dead-end context.
Filtered(op) == (only_preferred /\ ~op.preferred) \/ op.dead_end

\* C9: a filtered insert leaves buckets, size, usage counts and dimensions
\* unchanged; every other insert stores exactly one more entry, under the
\* entry's Key, and touches nothing else.
C9_InsertFiltering ==
    [][lastOp'.op = "insert" =>
          /\ expansion_records' = expansion_records
          /\ current_dimension' = current_dimension
          /\ IF Filtered(lastOp')
             THEN /\ ~lastOp'.done
                  /\ buckets' = buckets
                  /\ size' = size
             ELSE /\ lastOp'.done
                  /\ size' = size + 1
                  /\ EntriesOf(buckets'[lastOp'.key]) = EntriesOf(buckets[lastOp'.key]) + 1
                  /\ \A k \in Keys \ {lastOp'.key} : buckets'[k] = buckets[k]]_vars

\* C9 witness: a dead-end insert into a non-empty list was dropped.
C9_Witness ==
    /\ lastOp.op = "insert"
    /\ lastOp.dead_end /\ lastOp.preferred
    /\ ~lastOp.done
    /\ TotalEntries(buckets) > 0

\* C10: a remove_min on a list that holds no entry, or with a key slot that
\* is not empty, ends in the fatal state, and no bucket, usage count or
\* dimension has been modified and nothing has been returned or stored in
\* the slot.
C10_ContractViolationsFatal ==
    [][(/\ lastOp'.op = "remove_min"
        /\ \/ TotalEntries(buckets) = 0
           \/ (lastOp'.key_slot.present /\ lastOp'.key_slot.given # <<>>)) =>
          /\ pc' = "fatal"
          /\ buckets' = buckets
          /\ expansion_records' = expansion_records
          /\ current_dimension' = current_dimension
          /\ lastOp'.result = NoEntry
          /\ lastOp'.key_slot.value = lastOp'.key_slot.given]_vars

\* C10 witness: remove_min was called with a non-empty key slot on a list
\* that holds entries, and the process is in the fatal state.
C10_Witness ==
    /\ lastOp.op = "remove_min"
    /\ lastOp.key_slot = FullSlot
    /\ TotalEntries(buckets) > 0
    /\ pc = "fatal"

\* ------------------------------------------------- selection, C11 to C14
\* A remove_min step on Key k that got as far as choosing bucket_i.
SelectsOn(op, k) == op.op = "remove_min" /\ op.done /\ op.key = k

\* The usage counts and the dimension a remove_min on Key k selects with: the
\* stored counts (32 zeros when there are none yet) and the dimension the
\* step leaves behind.
CountsBefore(k) == IF expansion_records[k] = <<>> THEN [p \in 1..InitialRecords |-> 0]
                   ELSE expansion_records[k]

\* The 0-based positions p with rank(p) * d > counts[p], rank(p) = p + 1.
CandidatePositions(counts, d) ==
    {p \in 0..(Len(counts) - 1) : (p + 1) * d > counts[p + 1]}

\* C11: with stochastic = false the first removal from a primary bucket
\* draws from its last type bucket, and a removal that follows one on the
\* same primary bucket with the same type buckets draws from the type bucket
\* just before the previous one, wrapping from the first to the last.
C11_DocumentedLoopOrder ==
    [][\A k \in Keys :
          (~stochastic /\ SelectsOn(lastOp', k)) =>
             /\ expansion_records[k] = <<>> => lastOp'.bucket_i = lastOp'.n - 1
             /\ (SelectsOn(lastOp, k) /\ lastOp.n = lastOp'.n) =>
                   lastOp'.bucket_i = (lastOp.bucket_i + lastOp.n - 1) % lastOp.n]_vars

\* C12: with stochastic = false remove_min selects the first 0-based position
\* p with (p+1) * dimension > records[p], increments records[p] for that same
\* p, and pops the type bucket at that same p.
C12_ConsistentPosition ==
    [][\A k \in Keys :
          (~stochastic /\ SelectsOn(lastOp', k)) =>
             LET cands == CandidatePositions(CountsBefore(k), current_dimension'[k])
             IN /\ cands # {}
                /\ lastOp'.bucket_i = SetMin(cands)
                /\ expansion_records'[k] =
                      [CountsBefore(k) EXCEPT ![SetMin(cands) + 1] = @ + 1]]_vars

\* C13: with stochastic = true the position remove_min chooses is a
\* candidate of that call: rank * dimension > records[position].
C13_StochasticPicksCandidate ==
    [][\A k \in Keys :
          (stochastic /\ SelectsOn(lastOp', k)) =>
             lastOp'.bucket_i \in
                CandidatePositions(CountsBefore(k), current_dimension'[k])]_vars

\* The least of counts[p] \div rank(p) over all positions p.
MinQuotient(counts) == SetMin({counts[d] \div d : d \in 1..Len(counts)})

\* C14: the retry loop of remove_min ends with a dimension for which some
\* position is a candidate, after at most
\* min_p floor(records[p] / (p+1)) + 1 - dimension increments.
C14_RetryTerminates ==
    [][\A k \in Keys :
          SelectsOn(lastOp', k) =>
             LET increments == current_dimension'[k] - current_dimension[k]
             IN /\ increments >= 0
                /\ increments <= MinQuotient(CountsBefore(k)) + 1 - current_dimension[k]
                /\ CandidatePositions(CountsBefore(k), current_dimension'[k]) # {}]_vars

\* C14 witness: the first removal on a Key went through the retry loop once
\* (dimension 0 to 1) and then selected.
C14_Witness ==
    /\ Selected
    /\ current_dimension[lastOp.key] = 1
    /\ SumSeq(expansion_records[lastOp.key]) = 1

\* ------------------------------------------------------ buckets, C15
NoEmptyBucket(b, K) ==
    /\ K = {k \in Keys : b[k] # <<>>}
    /\ \A k \in Keys : \A i \in 1..Len(b[k]) : b[k][i].queue # <<>>

\* C15: after every operation the map holds exactly the Keys that have type
\* buckets and no type bucket has an empty queue; a remove_min that pops a
\* type bucket erases it exactly when the pop took its last entry, erases
\* the primary bucket exactly when that was its last type bucket, and leaves
\* every other type bucket and primary bucket as it was.
C15_DeletionOnEmpty ==
    [][/\ NoEmptyBucket(buckets', bucket_keys')
       /\ \A k \in Keys :
             (SelectsOn(lastOp', k) /\ lastOp'.bucket_i < lastOp'.n /\ pc' = "ok") =>
                LET i == lastOp'.bucket_i + 1
                    tb == buckets[k]
                IN /\ \A j \in Keys \ {k} : buckets'[j] = buckets[j]
                   /\ bucket_keys' \ {k} = bucket_keys \ {k}
                   /\ IF Len(tb[i].queue) = 1
                      THEN /\ buckets'[k] = SubSeq(tb, 1, i - 1) \o SubSeq(tb, i + 1, Len(tb))
                           /\ (k \in bucket_keys') = (Len(tb) > 1)
                      ELSE /\ Len(buckets'[k]) = Len(tb)
                           /\ \A j \in 1..Len(tb) : j # i => buckets'[k][j] = tb[j]
                           /\ buckets'[k][i].label = tb[i].label
                           /\ Len(buckets'[k][i].queue) = Len(tb[i].queue) - 1
                           /\ k \in bucket_keys']_vars

\* C15 witness: a pop emptied one of two type buckets; it was erased and the
\* primary bucket was kept.
C15_Witness ==
    /\ Selected /\ pc = "ok"
    /\ lastOp.bucket_i < lastOp.n
    /\ lastOp.n = 2
    /\ Len(buckets[lastOp.key]) = 1
    /\ lastOp.key \in bucket_keys

\* ------------------------------------------------ usage counts, C16
\* C16: the slot remove_min increments exists: the array has 32 slots when
\* created, twice its length when bucket_i was at or beyond its length and
\* its old length otherwise, bucket_i is below the new length, and slot
\* bucket_i is one above what it was.
C16_RecordsCoverage ==
    [][\A k \in Keys :
          SelectsOn(lastOp', k) =>
             LET i == lastOp'.bucket_i
                 before == CountsBefore(k)
                 after == expansion_records'[k]
             IN /\ expansion_records[k] = <<>> => Len(before) = InitialRecords
                /\ Len(after) = IF i >= Len(before) THEN 2 * Len(before) ELSE Len(before)
                /\ 0 <= i /\ i < Len(after)
                /\ after[i + 1] = (IF i < Len(before) THEN before[i + 1] ELSE 0) + 1]_vars

\* C16 witness: the first removal on a Key created its array and counted the
\* chosen position in it.
C16_Witness ==
    /\ Selected
    /\ Len(expansion_records[lastOp.key]) = InitialRecords
    /\ expansion_records[lastOp.key][lastOp.bucket_i + 1] = 1
    /\ SumSeq(expansion_records[lastOp.key]) = 1

\* ------------------------------------------------------ pop_bucket, C17
\* C17: under FIFO a pop returns the first entry of the queue and leaves the
\* rest in order; under LIFO it returns the last entry and leaves the others
\* in order.
C17_QueueDiscipline ==
    [][\A k \in Keys :
          (/\ queue_type \in {"FIFO", "LIFO"}
           /\ SelectsOn(lastOp', k) /\ lastOp'.bucket_i < lastOp'.n /\ pc' = "ok") =>
             LET q == QueueAt(buckets, k, lastOp'.bucket_i)
                 qAfter == QueueAfter(buckets, buckets', k, lastOp'.bucket_i)
             IN IF queue_type = "FIFO"
                THEN lastOp'.result = q[1] /\ qAfter = SubSeq(q, 2, Len(q))
                ELSE lastOp'.result = q[Len(q)] /\ qAfter = SubSeq(q, 1, Len(q) - 1)]_vars

ChangedSlots(before, after) ==
    {p \in 1..Len(after) : after[p] # (IF p <= Len(before) THEN before[p] ELSE 0)}

\* C19: no usage counts exist before the first call; a remove_min that
\* selects on a Key raises exactly one slot of that Key's array, by one; and
\* every step leaves the arrays and dimensions of all other Keys (for an
\* insert: of all Keys) unchanged. Hence each array's sum is the number of
\* removals that selected on its Key.
C19_CountConservation ==
    [][/\ ops = 0 => \A k \in Keys : expansion_records[k] = <<>>
       /\ \A k \in Keys :
             IF SelectsOn(lastOp', k)
             THEN /\ Cardinality(ChangedSlots(CountsBefore(k), expansion_records'[k])) = 1
                  /\ SumSeq(expansion_records'[k]) = SumSeq(expansion_records[k]) + 1
             ELSE /\ expansion_records'[k] = expansion_records[k]
                  /\ current_dimension'[k] = current_dimension[k]]_vars

\* C19 witness: removals have selected on both Keys, the last one on the
\* larger Key, and each array sums to its own removals.
C19_Witness ==
    /\ SelectsOn(lastOp, <<1, 0>>)
    /\ SumSeq(expansion_records[<<0, 1>>]) = 1
    /\ SumSeq(expansion_records[<<1, 0>>]) = 1

====
